---- MODULE Spec2Model ----
(***************************************************************************)
(* A model of app.py, the Streamlit dashboard of table-tennis strategy    *)
(* expected values.  One script run of app.py is one request: it reads    *)
(* the widget values of the session, filters the scenario's table, draws  *)
(* the chart and the player Top-5 section.  A user interaction changes    *)
(* one widget value and runs the script again from the top.               *)
(*                                                                         *)
(* Numbers: EV, usage_rate, usage_share and win_rate are fractions in     *)
(* [0,1]; the model carries them in thousandths (EV 0.7 is 700).          *)
(* Python's None is the number None (-1) where a code is expected.        *)
(* A missing player name (NaN after the left join) is the string "NaN".   *)
(***************************************************************************)
EXTENDS Integers, Sequences, FiniteSets, TLC

VARIABLES
    fs,             \* the tables the csv files under data/ are written from
    player_map_df,  \* data/player_id_mapping.csv, read once at start
    build,          \* what the installed pandas, numpy and streamlit do
                    \* where the outcome depends on the release
    scenario_key,   \* the value of the sidebar radio
    widgets,        \* the session's stored selectbox states
    run             \* the locals and the output of the last script run

vars == <<fs, player_map_df, build, scenario_key, widgets, run>>

None == -1

-----------------------------------------------------------------------------
(* Global constants and label registries                                   *)

SERVE_ACTIONS == <<15, 16, 17, 18>>

NON_SERVE_ACTIONS == [i \in 1..15 |-> i - 1]

action_label ==
    [c \in 0..18 |->
        CASE c = 0 -> "wu(Zero)"
          [] c = 1 -> "laqiu(Drive)"
          [] c = 2 -> "fanla(Counter)"
          [] c = 3 -> "shaqiu(Smash)"
          [] c = 4 -> "ningqiu(Twist)"
          [] c = 5 -> "kuaidai(Fast drive)"
          [] c = 6 -> "tuiji(Fast push)"
          [] c = 7 -> "tiaobo(Flip)"
          [] c = 8 -> "gongqiu(Long push)"
          [] c = 9 -> "keqiu(Fast push)"
          [] c = 10 -> "cuoqiu(Long push)"
          [] c = 11 -> "baiduan(Drop shot)"
          [] c = 12 -> "xiaoqiu(Chop)"
          [] c = 13 -> "dangqiu(Block)"
          [] c = 14 -> "fanggaoqiu(Lob)"
          [] c = 15 -> "chuantong(Traditional serve)"
          [] c = 16 -> "goushou(Hook serve)"
          [] c = 17 -> "nixuanzhuan(Reverse serve)"
          [] c = 18 -> "xiadunshi(Squat serve)"]

spin_label ==
    [c \in 0..5 |->
        CASE c = 0 -> "wu(Zero)"
          [] c = 1 -> "shangxuan(Top)"
          [] c = 2 -> "xiaxuan(Back)"
          [] c = 3 -> "buxuan(No spin)"
          [] c = 4 -> "ceshangxuan(Side top)"
          [] c = 5 -> "cexiaxuan(Side back)"]

ScenarioKeys == <<"S1", "S2", "S3", "S4">>

SCENARIOS ==
    [k \in {"S1", "S2", "S3", "S4"} |->
        CASE k = "S1" -> [name |-> "last4 with spin",
                          csv |-> "data/last4_action_spin.csv",
                          serve_only |-> FALSE, use_spin |-> TRUE,
                          player |-> FALSE]
          [] k = "S2" -> [name |-> "last4 without spin",
                          csv |-> "data/last4_action.csv",
                          serve_only |-> FALSE, use_spin |-> FALSE,
                          player |-> FALSE]
          [] k = "S3" -> [name |-> "serve3 with spin",
                          csv |-> "data/serve3_action_spin.csv",
                          serve_only |-> TRUE, use_spin |-> TRUE,
                          player |-> TRUE,
                          player_csv |-> "data/strategy_player_share_A1C_spin.csv"]
          [] k = "S4" -> [name |-> "serve3 without spin",
                          csv |-> "data/serve3_action.csv",
                          serve_only |-> TRUE, use_spin |-> FALSE,
                          player |-> TRUE,
                          player_csv |-> "data/strategy_player_share_A1C.csv"]]

-----------------------------------------------------------------------------
(* Sequence helpers                                                        *)

Range(s) == {s[i] : i \in DOMAIN s}

\* The first n elements of s.
head(s, n) == IF Len(s) <= n THEN s ELSE SubSeq(s, 1, n)

\* sorted(...): the elements of a set of integers in ascending order.
sorted(S) ==
    LET n == Cardinality(S)
    IN  [r \in 1..n |-> CHOOSE x \in S : Cardinality({y \in S : y < x}) = r - 1]

-----------------------------------------------------------------------------
(* pandas and streamlit primitives the script uses                         *)

\* df.sort_values(col, ascending=False): descending by col.  The call names
\* no kind, so pandas sorts with numpy's quicksort, which is not stable:
\* rows with equal keys come out in an order the build decides.  A stable
\* build keeps them in input order, the other build modelled here returns
\* them in the opposite order.
sort_values(df, col, stable) ==
    LET n == Len(df)
        Before(i, j) ==
            \/ df[i][col] > df[j][col]
            \/ /\ df[i][col] = df[j][col]
               /\ IF stable THEN i < j ELSE i > j
        at == [r \in 1..n |->
                 CHOOSE i \in 1..n :
                     Cardinality({j \in 1..n : Before(j, i)}) = r - 1]
    IN  [r \in 1..n |-> df[at[r]]]

\* left.merge(right, left_on="A1_playerId", right_on="player_id", how="left"):
\* every left row once per matching right row, or once with missing right
\* columns when nothing matches; left order is kept.
RECURSIVE merge(_, _)
merge(left, right) ==
    IF left = <<>> THEN <<>>
    ELSE LET r == Head(left)
             m == SelectSeq(right, LAMBDA x : x.player_id = r.A1_playerId)
             joined ==
                 IF m = <<>>
                 THEN <<r @@ [player_id |-> None, player_name |-> "NaN"]>>
                 ELSE [i \in DOMAIN m |-> r @@ m[i]]
         IN  joined \o merge(Tail(left), right)

\* A stored selectbox state.  Streamlit identifies a widget by its label and
\* its formatted options; the script's labels are fixed, so the options are
\* the identity.
NoWidget == [present |-> FALSE, options |-> <<>>, index |-> 0]

\* A selectbox that keeps the stored index whenever it still addresses an
\* option, whatever the options are.
selectbox_keep_index(stored, options) ==
    IF stored.present /\ stored.index < Len(options)
    THEN [present |-> TRUE, options |-> options, index |-> stored.index]
    ELSE [present |-> TRUE, options |-> options, index |-> 0]

\* st.selectbox(label, options, format_func): the stored index when the
\* session holds a state for a widget of this identity, else index 0.
selectbox(stored, options) ==
    IF stored.present /\ stored.options = options
    THEN stored
    ELSE [present |-> TRUE, options |-> options, index |-> 0]

\* format_func applied to every option: the labels the widget shows.
formatted(options, label) == [i \in DOMAIN options |-> label[options[i]]]

\* The value a selectbox returns: the option at its index, None without options.
value(w, options) == IF options = <<>> THEN None ELSE options[w.index + 1]

-----------------------------------------------------------------------------
(* The input files.  The script only reads them.  The four strategy files  *)
(* are written from one table of strategy rows and the two player-share    *)
(* files from one table of player-share rows.                               *)

\* The file with its rows numbered from 1.
numbered(rows) == [i \in DOMAIN rows |-> rows[i] @@ [row |-> i]]

\* The same rows about the serve codes: first action 1 is 15, 2 is 16.
serve_rows(rows) ==
    [i \in DOMAIN rows |-> [rows[i] EXCEPT !.A1_actionId = @ + 14]]

\* The same strategy rows in a file without the spin columns.
no_spin_rows(rows) ==
    [i \in DOMAIN rows |->
        [row |-> rows[i].row, A1_actionId |-> rows[i].A1_actionId,
         C_actionId |-> rows[i].C_actionId, EV |-> rows[i].EV,
         usage_rate |-> rows[i].usage_rate, count |-> rows[i].count]]

\* The same player-share rows in a file without the spin columns.
no_spin_players(rows) ==
    [i \in DOMAIN rows |->
        [row |-> rows[i].row, A1_playerId |-> rows[i].A1_playerId,
         A1_actionId |-> rows[i].A1_actionId,
         C_actionId |-> rows[i].C_actionId,
         use_count |-> rows[i].use_count,
         usage_share |-> rows[i].usage_share,
         win_rate |-> rows[i].win_rate]]

\* The content of the file at path.
file(path) ==
    CASE path = "data/last4_action_spin.csv" -> numbered(fs.strategy)
      [] path = "data/last4_action.csv" -> no_spin_rows(numbered(fs.strategy))
      [] path = "data/serve3_action_spin.csv" -> serve_rows(numbered(fs.strategy))
      [] path = "data/serve3_action.csv" ->
            no_spin_rows(serve_rows(numbered(fs.strategy)))
      [] path = "data/strategy_player_share_A1C_spin.csv" -> numbered(fs.players)
      [] path = "data/strategy_player_share_A1C.csv" ->
            no_spin_players(numbered(fs.players))

-----------------------------------------------------------------------------
(* Utils                                                                    *)

\* st.cache_data keeps the first read of a path; the files never change, so
\* every call returns the file's content.
load_csv(path) == file(path)

make_c_label(row, use_spin) ==
    IF use_spin
    THEN action_label[row.C_actionId] \o " + " \o spin_label[row.C_spinId]
    ELSE action_label[row.C_actionId]

\* make_c_label raises KeyError when a code of the row has no label.
make_c_label_raises(row, use_spin) ==
    \/ row.C_actionId \notin DOMAIN action_label
    \/ use_spin /\ row.C_spinId \notin DOMAIN spin_label

\* plot_ev_usage: one bar per row, EV descending, labelled with C_label.
plot_ev_usage(df) ==
    LET bars(t) == [i \in DOMAIN t |->
                       [row |-> t[i].row, label |-> t[i].C_label,
                        EV |-> t[i].EV, usage_rate |-> t[i].usage_rate]]
    IN  bars(sort_values(df, "EV", build.stable_sort))

-----------------------------------------------------------------------------
(* The script, top to bottom                                               *)

\* The first-action codes offered with serve_only ignored.
A_action_options_any(cfg) == NON_SERVE_ACTIONS

\* Line 139: the first-action codes the sidebar offers.
A_action_options(cfg) ==
    IF cfg.serve_only THEN SERVE_ACTIONS ELSE NON_SERVE_ACTIONS

\* The spin codes of the whole table, whatever the first action.
A_spin_options_all(df, A_action) == sorted({r.A1_spinId : r \in Range(df)})

\* Line 149: sorted(df[df.A1_actionId==A_action]["A1_spinId"].unique()).
A_spin_options(df, A_action) ==
    sorted({r.A1_spinId : r \in {x \in Range(df) : x.A1_actionId = A_action}})

\* The filter with the spin condition left out.
filter_ev_action_only(df, use_spin, A_action, A_spin) ==
    SelectSeq(df, LAMBDA r : r.A1_actionId = A_action)

\* Lines 158-161: the rows of the strategy table that match the selection.
\* A comparison with None matches no row.
filter_ev(df, use_spin, A_action, A_spin) ==
    IF use_spin
    THEN SelectSeq(df, LAMBDA r : r.A1_actionId = A_action /\ r.A1_spinId = A_spin)
    ELSE SelectSeq(df, LAMBDA r : r.A1_actionId = A_action)

\* Lines 167-169: df_sel["C_label"] = df_sel.apply(make_c_label).
with_C_label(df_sel, use_spin) ==
    [i \in DOMAIN df_sel |->
        df_sel[i] @@ [C_label |-> make_c_label(df_sel[i], use_spin)]]

\* The player filter with the follow-up spin condition left out.
filter_players_no_c_spin(pdf, use_spin, A_action, A_spin, c_row) ==
    IF use_spin
    THEN SelectSeq(pdf, LAMBDA r : /\ r.A1_actionId = A_action
                               /\ r.A1_spinId = A_spin
                               /\ r.C_actionId = c_row.C_actionId)
    ELSE SelectSeq(pdf, LAMBDA r : /\ r.A1_actionId = A_action
                               /\ r.C_actionId = c_row.C_actionId)

\* Lines 214-225: the player-share rows that match the selection and the
\* selected follow-up row.
filter_players(pdf, use_spin, A_action, A_spin, c_row) ==
    IF use_spin
    THEN SelectSeq(pdf, LAMBDA r : /\ r.A1_actionId = A_action
                               /\ r.A1_spinId = A_spin
                               /\ r.C_actionId = c_row.C_actionId
                               /\ r.C_spinId = c_row.C_spinId)
    ELSE SelectSeq(pdf, LAMBDA r : /\ r.A1_actionId = A_action
                               /\ r.C_actionId = c_row.C_actionId)

\* Line 232: .head(5).
TopN == 5

\* Lines 235-236: usage_share*100 rounded to 2 decimals, kept in hundredths
\* of a percent, and win_rate*100 rounded to 1 decimal, kept in tenths of a
\* percent.  The inputs are whole thousandths, so no digit is lost.
as_percent(t) ==
    [i \in DOMAIN t |->
        [t[i] EXCEPT !.usage_share = (@ * 100 * 100) \div 1000,
                     !.win_rate = (@ * 100 * 10) \div 1000]]

\* The first five rows of pdf as filtered, the sort left out.
top_players_unsorted(pdf) == as_percent(head(pdf, TopN))

\* Lines 230-236: the five rows of highest usage_share, both rates as
\* percentages.
top_players_of(pdf) ==
    as_percent(head(sort_values(pdf, "usage_share", build.stable_sort), TopN))

\* Lines 238-248: the columns the table shows, renamed.
dataframe_of(top_players) ==
    [i \in DOMAIN top_players |->
        [Player |-> top_players[i].player_name,
         UseCount |-> top_players[i].use_count,
         UsageRatePct |-> top_players[i].usage_share,
         WinRatePct |-> top_players[i].win_rate]]

\* The player flag never consulted.
always_player(cfg) == TRUE

\* Line 204: cfg.get("player", False).
has_player(cfg) == IF "player" \in DOMAIN cfg THEN cfg.player ELSE FALSE

\* Lines 202-248: the player Top-5 section, from the subheader on.
player_section(cfg, A_action, A_spin, c_row) ==
    IF ~has_player(cfg)
    THEN [status |-> "done", reads |-> <<>>, pdf |-> <<>>, top_players |-> <<>>,
          dataframe |-> <<>>,
          shown |-> <<"subheader", "info: no player analysis">>]
    ELSE IF "player_csv" \notin DOMAIN cfg
    THEN [status |-> "KeyError", reads |-> <<>>, pdf |-> <<>>,
          top_players |-> <<>>, dataframe |-> <<>>,
          shown |-> <<"subheader", "exception">>]
    ELSE LET pdf == filter_players(
                        merge(load_csv(cfg.player_csv), player_map_df),
                        cfg.use_spin, A_action, A_spin, c_row)
             top_players == top_players_of(pdf)
         IN  IF pdf = <<>>
             THEN [status |-> "done", reads |-> <<cfg.player_csv>>,
                   pdf |-> pdf, top_players |-> <<>>, dataframe |-> <<>>,
                   shown |-> <<"subheader", "warning: player sample">>]
             ELSE [status |-> "done", reads |-> <<cfg.player_csv>>,
                   pdf |-> pdf, top_players |-> top_players,
                   dataframe |-> dataframe_of(top_players),
                   shown |-> <<"subheader", "dataframe">>]

\* The warning without st.stop(): the run goes on to the title and the chart.
warn_without_stop(shown) ==
    shown \o <<"warning: no data", "title", "markdown", "chart">>

\* Lines 163-165: the page of a request whose selection matches no row: the
\* warning, then st.stop() ends the run.
stop_no_data(shown) == shown \o <<"warning: no data">>

\* The locals of a run that ended before it set them.
Unset ==
    [status |-> "done", A_action |-> None, A_spin |-> None,
     options |-> [A_action |-> <<>>, A_spin |-> <<>>],
     filtered |-> FALSE, df_sel |-> <<>>, chart |-> <<>>, df_sorted |-> <<>>,
     c_idx |-> None, pdf |-> <<>>, top_players |-> <<>>, dataframe |-> <<>>,
     shown |-> <<>>, reads |-> <<>>]

\* The session's widget states after a run that rendered the widgets of
\* `rendered`.  A run that reaches its end drops the state of every widget
\* it did not render.  After a run cut short by st.stop() or an exception,
\* whether the states of the widgets below the cut survive depends on the
\* streamlit release.
after_run(w, rendered, status) ==
    [n \in {"A_action", "A_spin", "C_action"} |->
        IF n \in DOMAIN rendered THEN rendered[n]
        ELSE IF status # "done" /\ ~build.prune_on_stop THEN w[n]
        ELSE NoWidget]

\* Lines 128-248.  One run of the script for radio value k and stored
\* widget states w: the widgets it rendered and the locals and output it
\* leaves.
Script(k, w) ==
    LET cfg == SCENARIOS[k]
        df == load_csv(cfg.csv)
        a_options == A_action_options(cfg)
        wA == selectbox(w.A_action, formatted(a_options, action_label))
        A_action == value(wA, a_options)
        s_options == IF cfg.use_spin THEN A_spin_options(df, A_action) ELSE <<>>
        s_raises == \E x \in Range(s_options) : x \notin DOMAIN spin_label
        wS == selectbox(w.A_spin, formatted(s_options, spin_label))
        A_spin == IF cfg.use_spin THEN value(wS, s_options) ELSE None
        sidebar == [A_action |-> wA] @@
                   (IF cfg.use_spin THEN [A_spin |-> wS] ELSE <<>>)
        df_sel0 == filter_ev(df, cfg.use_spin, A_action, A_spin)
        l_raises == \E r \in Range(df_sel0) : make_c_label_raises(r, cfg.use_spin)
        df_sel == with_C_label(df_sel0, cfg.use_spin)
        df_sorted == sort_values(df_sel, "EV", build.stable_sort)
        wC == selectbox(w.C_action,
                        [i \in DOMAIN df_sorted |-> df_sorted[i].C_label])
        c_idx == wC.index
        c_row == df_sorted[c_idx + 1]
        ps == player_section(cfg, A_action, A_spin, c_row)
        top == <<"sidebar.header", "radio", "A_action">>
        start == [Unset EXCEPT !.reads = <<cfg.csv>>, !.A_action = A_action,
                               !.options.A_action = a_options]
        chosen == [start EXCEPT !.A_spin = A_spin, !.options.A_spin = s_options,
                                !.filtered = TRUE]
    IN  IF s_raises
        THEN [rendered |-> [A_action |-> wA],
              run |-> [start EXCEPT !.status = "KeyError",
                                    !.shown = top \o <<"exception">>]]
        ELSE IF df_sel0 = <<>>
        THEN [rendered |-> sidebar,
              run |-> [chosen EXCEPT
                         !.status = "stopped",
                         !.shown = stop_no_data(
                             top \o (IF cfg.use_spin THEN <<"A_spin">> ELSE <<>>))]]
        ELSE IF l_raises
        THEN [rendered |-> sidebar,
              run |-> [chosen EXCEPT
                         !.status = "KeyError", !.df_sel = df_sel0,
                         !.shown = top \o (IF cfg.use_spin THEN <<"A_spin">> ELSE <<>>)
                                       \o <<"exception">>]]
        ELSE [rendered |-> sidebar @@ [C_action |-> wC],
              run |-> [chosen EXCEPT
                         !.status = ps.status, !.df_sel = df_sel,
                         !.chart = plot_ev_usage(df_sel),
                         !.df_sorted = df_sorted, !.c_idx = c_idx,
                         !.pdf = ps.pdf, !.top_players = ps.top_players,
                         !.dataframe = ps.dataframe,
                         !.reads = <<cfg.csv>> \o ps.reads,
                         !.shown = top \o (IF cfg.use_spin THEN <<"A_spin">> ELSE <<>>)
                                       \o <<"title", "markdown", "chart",
                                            "markdown: select C_action", "C_action">>
                                       \o ps.shown]]

-----------------------------------------------------------------------------
(* Bounded inputs                                                          *)

MaxRows == 2

\* All sequences over S of length at most n.
SeqUpTo(S, n) == UNION {[1..k -> S] : k \in 0..n}

\* Strategy rows: four with codes the registries label, one whose follow-up
\* action 19 has no label in action_label and one whose first spin 6 has no
\* label in spin_label.
StrategyPool ==
    [A1_actionId : {1, 2}, A1_spinId : {1, 2}, C_actionId : {13},
     C_spinId : {2}, EV : {400}, usage_rate : {500}, count : {10}]
    \cup
    {[A1_actionId |-> 1, A1_spinId |-> 1, C_actionId |-> 19, C_spinId |-> 2,
      EV |-> 400, usage_rate |-> 500, count |-> 10],
     [A1_actionId |-> 2, A1_spinId |-> 6, C_actionId |-> 13, C_spinId |-> 2,
      EV |-> 400, usage_rate |-> 500, count |-> 10]}

OnePlayer ==
    <<[A1_playerId |-> 1, A1_actionId |-> 15, A1_spinId |-> 1,
       C_actionId |-> 13, C_spinId |-> 2, use_count |-> 3,
       usage_share |-> 250, win_rate |-> 600]>>

OneName == <<[player_id |-> 1, player_name |-> "P1"]>>

\* stable_sort: sort_values keeps rows of equal key in input order.
\* prune_on_stop: a run cut short drops the states of the widgets it did not
\* reach.
Builds == [stable_sort : BOOLEAN, prune_on_stop : BOOLEAN]

NoWidgets == [n \in {"A_action", "A_spin", "C_action"} |-> NoWidget]

\* The page as first loaded: the radio is on its first option and the
\* session stores no widget state.
Start(strategy, players, mapping, b) ==
    /\ fs = [strategy |-> strategy, players |-> players]
    /\ player_map_df = mapping
    /\ build = b
    /\ scenario_key = ScenarioKeys[1]
    /\ \E r \in {Script(ScenarioKeys[1], NoWidgets)} :
        /\ widgets = after_run(NoWidgets, r.rendered, r.run.status)
        /\ run = r.run

Init ==
    \E strategy \in SeqUpTo(StrategyPool, MaxRows), b \in Builds :
        Start(strategy, OnePlayer, OneName, b)

-----------------------------------------------------------------------------
(* User interactions: each changes one widget and runs the script again.   *)

Rerun(k, w) ==
    \E r \in {Script(k, w)} :
        /\ scenario_key' = k
        /\ widgets' = after_run(w, r.rendered, r.run.status)
        /\ run' = r.run
        /\ UNCHANGED <<fs, player_map_df, build>>

Rendered(n) == n \in Range(run.shown)

ChooseScenario ==
    \E k \in Range(ScenarioKeys) :
        /\ k # scenario_key
        /\ Rerun(k, widgets)

ChooseAction ==
    \E i \in 0..(Len(run.options.A_action) - 1) :
        /\ i # widgets.A_action.index
        /\ Rerun(scenario_key, [widgets EXCEPT !.A_action.index = i])

ChooseSpin ==
    /\ Rendered("A_spin")
    /\ \E i \in 0..(Len(run.options.A_spin) - 1) :
        /\ i # widgets.A_spin.index
        /\ Rerun(scenario_key, [widgets EXCEPT !.A_spin.index = i])

ChooseC ==
    /\ Rendered("C_action")
    /\ \E i \in 0..(Len(run.df_sorted) - 1) :
        /\ i # widgets.C_action.index
        /\ Rerun(scenario_key, [widgets EXCEPT !.C_action.index = i])

Next == ChooseScenario \/ ChooseAction \/ ChooseSpin \/ ChooseC

Spec == Init /\ [][Next]_vars

-----------------------------------------------------------------------------
(* Further input families for the same page                                *)

MaxTableRows == 3
MaxPlayerRows == 6
MaxShareRows == 3

\* The builds that differ in the order of ties only.
SortBuilds == {b \in Builds : b.prune_on_stop}

\* Strategy rows that differ in first action, first spin and EV.
TablePool ==
    [A1_actionId : {1}, A1_spinId : {1, 2}, C_actionId : {13},
     C_spinId : {2}, EV : {400, 700}, usage_rate : {500}, count : {10}]
    \cup
    {[A1_actionId |-> 2, A1_spinId |-> 1, C_actionId |-> 13, C_spinId |-> 2,
      EV |-> 400, usage_rate |-> 500, count |-> 10],
     [A1_actionId |-> 2, A1_spinId |-> 2, C_actionId |-> 13, C_spinId |-> 2,
      EV |-> 700, usage_rate |-> 500, count |-> 10]}

InitTables ==
    \E strategy \in SeqUpTo(TablePool, MaxTableRows), b \in SortBuilds :
        Start(strategy, OnePlayer, OneName, b)

SpecTables == InitTables /\ [][Next]_vars

StrategyRow(a, s, c, ev) ==
    [A1_actionId |-> a, A1_spinId |-> s, C_actionId |-> c, C_spinId |-> 2,
     EV |-> ev, usage_rate |-> 500, count |-> 10]

\* A strategy table with two follow-up rows for (1, 1) and one row for
\* another spin.
FixedStrategy ==
    <<StrategyRow(1, 1, 13, 700), StrategyRow(1, 1, 3, 400),
      StrategyRow(1, 2, 13, 400)>>

ShareRow(p, a, s, c, cs, share) ==
    [A1_playerId |-> p, A1_actionId |-> a, A1_spinId |-> s, C_actionId |-> c,
     C_spinId |-> cs, use_count |-> 3, usage_share |-> share, win_rate |-> 600]

\* Player-share rows of one strategy: a named player with a low share and a
\* player the mapping table does not know with a high share.
Top5Pool == {ShareRow(1, 15, 1, 13, 2, 100), ShareRow(9, 15, 1, 13, 2, 300)}

InitTop5 ==
    \E players \in SeqUpTo(Top5Pool, MaxPlayerRows), b \in SortBuilds :
        Start(FixedStrategy, players, OneName, b)

SpecTop5 == InitTop5 /\ [][Next]_vars

\* Player-share rows of the strategy (15, 1, 13, 2) and of the four
\* strategies that differ from it in one code.
SharePool ==
    {ShareRow(1, 15, 1, 13, 2, 250), ShareRow(1, 16, 1, 13, 2, 250),
     ShareRow(1, 15, 2, 13, 2, 250), ShareRow(1, 15, 1, 3, 2, 250),
     ShareRow(1, 15, 1, 13, 1, 250)}

InitShare ==
    \E players \in SeqUpTo(SharePool, MaxShareRows), b \in SortBuilds :
        Start(FixedStrategy, players, OneName, b)

SpecShare == InitShare /\ [][Next]_vars

-----------------------------------------------------------------------------
(* Properties                                                              *)

cfg == SCENARIOS[scenario_key]

Count(s, x) == Cardinality({i \in DOMAIN s : s[i] = x})

\* The run reached the end of the script with the chart drawn.
ChartRendered == run.status = "done" /\ Rendered("chart")

\* C1: for every scenario the first-action selector offers exactly
\* {15,16,17,18} when serve_only is true and exactly {0..14} when it is
\* false, and the chosen first action is one of the offered codes.
C1_FirstActionChoices ==
    LET offered == Range(run.options.A_action)
    IN  /\ cfg.serve_only => offered = {15, 16, 17, 18}
        /\ ~cfg.serve_only => offered = 0..14
        /\ Rendered("A_action")
        /\ run.A_action \in offered

\* A serve scenario where the user picked a first action other than the default.
C1_Witness ==
    /\ cfg.serve_only
    /\ run.A_action = 16
    /\ Range(run.options.A_action) = {15, 16, 17, 18}

\* C3: if the filtered subset df_sel is empty, exactly one no-data warning
\* is emitted and the request stops there: no title, chart, follow-up
\* selector or player section; if df_sel is not empty, no no-data warning.
C3_EmptySelectionStops ==
    run.filtered =>
        /\ run.df_sel = <<>> =>
              /\ Count(run.shown, "warning: no data") = 1
              /\ run.status = "stopped"
              /\ Range(run.shown) \cap
                    {"title", "markdown", "chart", "markdown: select C_action",
                     "C_action", "subheader", "info: no player analysis",
                     "warning: player sample", "dataframe"} = {}
              /\ run.chart = <<>> /\ run.dataframe = <<>>
        /\ run.df_sel # <<>> => ~Rendered("warning: no data")

\* A request in a spin-tracking scenario whose first action has no row: the
\* spin selector has no option and the request stopped on the warning.
C3_Witness ==
    /\ cfg.use_spin
    /\ run.filtered /\ run.df_sel = <<>>
    /\ run.A_spin = None /\ run.options.A_spin = <<>>
    /\ run.status = "stopped"
    /\ run.A_action = 2
    /\ \E r \in Range(fs.strategy) : r.A1_actionId = 1

\* C4: every request ends with the chart rendered or with one of the three
\* messages, never in an unhandled error.
C4_NoRawFailure ==
    /\ run.status # "KeyError"
    /\ ~Rendered("exception")
    /\ \/ ChartRendered
       \/ Rendered("warning: no data")

\* C6: a request that reaches the player section shows exactly one of:
\* the info message (player flag false; the player table is not loaded),
\* the insufficient-sample warning (flag true, filtered subset empty),
\* the player table (flag true, subset not empty).
C6_PlayerSectionOutcome ==
    LET info == Rendered("info: no player analysis")
        warn == Rendered("warning: player sample")
        table == Rendered("dataframe")
        loaded == \E i \in DOMAIN run.reads : run.reads[i] # cfg.csv
    IN  Rendered("subheader") =>
            /\ ~cfg.player => info /\ ~warn /\ ~table /\ ~loaded
            /\ cfg.player /\ run.pdf = <<>> =>
                  warn /\ ~info /\ ~table /\ run.dataframe = <<>>
            /\ cfg.player /\ run.pdf # <<>> =>
                  table /\ ~info /\ ~warn /\ run.dataframe # <<>>

\* All three outcomes occur: this is the table; the other two are below.
C6_Witness ==
    /\ cfg.player /\ Rendered("dataframe") /\ Len(run.dataframe) = 1

C6_WitnessWarning == cfg.player /\ Rendered("warning: player sample")

C6_WitnessInfo == ~cfg.player /\ Rendered("info: no player analysis")

\* The position of element x in the page, 0 when it is not on the page.
Position(x) ==
    IF Rendered(x) THEN CHOOSE i \in DOMAIN run.shown : run.shown[i] = x ELSE 0

\* The selection of widget n is its first option (or the widget is absent).
IsReset(n) == widgets[n].index = 0

C7_ChainValid ==
    /\ Rendered("A_action") /\ Position("radio") < Position("A_action")
    /\ run.A_action \in Range(A_action_options(cfg))
    /\ Rendered("A_spin") =>
          /\ cfg.use_spin
          /\ Position("A_action") < Position("A_spin")
          /\ LET offered == Range(A_spin_options(load_csv(cfg.csv), run.A_action))
             IN  IF offered = {} THEN run.A_spin = None ELSE run.A_spin \in offered
    /\ Rendered("C_action") =>
          /\ cfg.use_spin => Rendered("A_spin") /\ run.A_spin # None
          /\ Position("A_action") < Position("C_action")
          /\ Position("A_spin") < Position("C_action")
          /\ run.c_idx \in 0..(Len(run.df_sorted) - 1)
          /\ Len(run.df_sorted) =
                Len(filter_ev(load_csv(cfg.csv), cfg.use_spin,
                              run.A_action, run.A_spin))
          /\ widgets.C_action.index = run.c_idx

\* A selector drawn with an option list other than the one its stored
\* selection was made against comes up on its first option.
C7_ResetsOnNewOptions ==
    \A n \in {"A_action", "A_spin", "C_action"} :
        (/\ Rendered(n)'
         /\ \/ ~widgets[n].present
            \/ widgets[n].options # widgets'[n].options)
        => widgets'[n].index = 0

df == load_csv(cfg.csv)

Rows(t) == {r.row : r \in Range(t)}

\* C2: with use_spin the spin selector offers exactly the distinct
\* A1_spinId values of the rows whose A1_actionId is the chosen first action
\* (none when there is no such row); without use_spin no spin is collected
\* and A_spin is None.
C2_SpinChoices ==
    run.filtered =>
        IF cfg.use_spin
        THEN /\ Rendered("A_spin")
             /\ \A s \in 0..5 :
                   s \in Range(run.options.A_spin) <=>
                       \E i \in DOMAIN df : /\ df[i].A1_actionId = run.A_action
                                            /\ df[i].A1_spinId = s
             /\ Range(run.options.A_spin) \subseteq 0..5
             /\ Cardinality(Range(run.options.A_spin)) = Len(run.options.A_spin)
        ELSE /\ ~Rendered("A_spin")
             /\ run.A_spin = None
             /\ run.options.A_spin = <<>>

\* The selector offers one spin while the table holds another spin under a
\* different first action.
C2_Witness ==
    /\ cfg.use_spin /\ run.filtered
    /\ Len(run.options.A_spin) = 1
    /\ \E r \in Range(df) : /\ r.A1_actionId # run.A_action
                            /\ r.A1_spinId \notin Range(run.options.A_spin)

\* The rows of the active table that the selection names.
Matching ==
    {i \in DOMAIN df :
        /\ df[i].A1_actionId = run.A_action
        /\ cfg.use_spin => df[i].A1_spinId = run.A_spin}

\* C8: df_sel holds exactly the rows with A1_actionId = a (and, only with
\* use_spin, A1_spinId = s), each once and no other; without use_spin the
\* result does not depend on a spin value; filtering the filtered subset
\* again gives the same rows.
C8_FilterExact ==
    run.filtered =>
        /\ \A i \in Matching :
              Cardinality({j \in DOMAIN run.df_sel : run.df_sel[j].row = i}) = 1
        /\ Rows(run.df_sel) \subseteq Matching
        /\ \A j \in DOMAIN run.df_sel :
              \A f \in DOMAIN df[1] : run.df_sel[j][f] = df[run.df_sel[j].row][f]
        /\ ~cfg.use_spin =>
              \A s \in {None} \cup 0..5 :
                  filter_ev(df, FALSE, run.A_action, s) =
                      filter_ev(df, FALSE, run.A_action, run.A_spin)
        /\ filter_ev(run.df_sel, cfg.use_spin, run.A_action, run.A_spin)
              = run.df_sel

\* A spin-tracking selection that keeps one row and leaves out a row of the
\* same first action with another spin.
C8_Witness ==
    /\ cfg.use_spin /\ run.filtered
    /\ run.df_sel # <<>>
    /\ \E r \in Range(df) : /\ r.A1_actionId = run.A_action
                            /\ r.A1_spinId # run.A_spin

\* C9: the chart and the follow-up list show the same permutation of the
\* filtered subset, EV non-increasing by position, rows of equal EV in their
\* order in the source table.
C9_StableRanking ==
    Rendered("chart") =>
        /\ Len(run.chart) = Len(run.df_sel)
        /\ Len(run.df_sorted) = Len(run.df_sel)
        /\ Rows(run.df_sorted) = Rows(run.df_sel)
        /\ \A i \in DOMAIN run.df_sorted :
              /\ run.chart[i].row = run.df_sorted[i].row
              /\ run.chart[i].label = run.df_sorted[i].C_label
        /\ \A i, j \in DOMAIN run.df_sorted :
              i < j =>
                  /\ run.df_sorted[i].EV >= run.df_sorted[j].EV
                  /\ run.df_sorted[i].EV = run.df_sorted[j].EV =>
                        run.df_sorted[i].row < run.df_sorted[j].row

\* The player-share file of the active scenario, and the rows of it that
\* the selection and the selected follow-up row name.
players == load_csv(cfg.player_csv)

c_row == run.df_sorted[run.c_idx + 1]

MatchingPlayers ==
    {i \in DOMAIN players :
        /\ players[i].A1_actionId = run.A_action
        /\ players[i].C_actionId = c_row.C_actionId
        /\ cfg.use_spin => /\ players[i].A1_spinId = run.A_spin
                           /\ players[i].C_spinId = c_row.C_spinId}

PlayerTableShown == cfg.player /\ Rendered("dataframe")

\* C5: the player table has at most 5 rows, usage_share non-increasing by
\* position, every omitted row has a usage_share no greater than every row
\* shown, and a row whose player id the mapping table lacks is kept, with a
\* missing name.
C5_TopFive ==
    PlayerTableShown =>
        /\ Len(run.dataframe) <= 5
        /\ Len(run.dataframe) = Len(run.top_players)
        /\ Len(run.dataframe) = IF Len(run.pdf) < 5 THEN Len(run.pdf) ELSE 5
        /\ \A i, j \in DOMAIN run.dataframe :
              i < j => run.dataframe[i].UsageRatePct >= run.dataframe[j].UsageRatePct
        /\ Rows(run.top_players) \subseteq Rows(run.pdf)
        /\ \A r \in Range(run.pdf) :
              r.row \notin Rows(run.top_players) =>
                  \A t \in Range(run.top_players) :
                      r.usage_share * 10 <= t.usage_share
        /\ \A i \in DOMAIN run.top_players :
              /\ run.top_players[i].usage_share =
                    players[run.top_players[i].row].usage_share * 10
              /\ run.dataframe[i].UsageRatePct = run.top_players[i].usage_share
        /\ \A i \in MatchingPlayers :
              \E r \in Range(run.pdf) :
                  /\ r.row = i
                  /\ r.player_name =
                        IF \E m \in Range(player_map_df) :
                               m.player_id = players[i].A1_playerId
                        THEN (CHOOSE m \in Range(player_map_df) :
                                  m.player_id = players[i].A1_playerId).player_name
                        ELSE "NaN"
        /\ \A i \in DOMAIN run.dataframe :
              run.dataframe[i].Player = run.top_players[i].player_name

\* More than five rows match, rows are cut, and the table shows a row
\* without a name.
C5_Witness ==
    /\ PlayerTableShown
    /\ Len(run.pdf) > 5
    /\ \E r \in Range(run.dataframe) : r.Player = "NaN"
    /\ \E r \in Range(run.dataframe) : r.Player # "NaN"
    /\ \E r \in Range(run.pdf) : r.row \notin Rows(run.top_players)

\* C10: every row of the player breakdown has the chosen first action and
\* the selected row's follow-up action and, with use_spin, the chosen spin
\* and the selected row's follow-up spin; without use_spin no spin is
\* compared; no matching player-share row is left out before the cut.
C10_PlayerRowsMatch ==
    (cfg.player /\ Rendered("subheader")) =>
        /\ \A r \in Range(run.pdf) \cup Range(run.top_players) :
              /\ r.A1_actionId = run.A_action
              /\ r.C_actionId = c_row.C_actionId
              /\ cfg.use_spin => /\ r.A1_spinId = run.A_spin
                                 /\ r.C_spinId = c_row.C_spinId
        /\ Rows(run.pdf) = MatchingPlayers
        /\ ~cfg.use_spin =>
              Rows(run.pdf) =
                  {i \in DOMAIN fs.players :
                      /\ fs.players[i].A1_actionId = run.A_action
                      /\ fs.players[i].C_actionId = c_row.C_actionId}
        /\ Len(run.pdf) <= TopN => Rows(run.top_players) = Rows(run.pdf)

\* A spin-tracking page shows a player row and leaves out a row that
\* differs from the selection in the follow-up spin only.
C10_Witness ==
    /\ cfg.use_spin /\ PlayerTableShown
    /\ \E i \in DOMAIN players :
          /\ players[i].A1_actionId = run.A_action
          /\ players[i].A1_spinId = run.A_spin
          /\ players[i].C_actionId = c_row.C_actionId
          /\ players[i].C_spinId # c_row.C_spinId

\* Without use_spin the table shows a row whose spins differ from those of
\* another row shown.
C10_WitnessNoSpin ==
    /\ ~cfg.use_spin /\ PlayerTableShown
    /\ \E i, j \in Rows(run.pdf) :
          fs.players[i].C_spinId # fs.players[j].C_spinId

====
